---------------------------- MODULE Spec2Model ----------------------------
(***************************************************************************)
(* Student360 (src/src/App.jsx): a model of the student-ID normalizer, the *)
(* session/role resolver, the student directory (single add and CSV        *)
(* import), and the scan pipeline with its scan-session token.             *)
(*                                                                         *)
(* Text is modelled as a sequence of one-character strings, so that the    *)
(* string operations of the source (trim, replace, toUpperCase, match) are *)
(* computed character by character.                                        *)
(***************************************************************************)
EXTENDS Integers, Sequences, FiniteSets, TLC

VARIABLES
    \* ---- normalizer harness: a text field and two applications of
    \*      normalizeStudentId (entry, then re-reading the stored/encoded ID)
    raw,        \* the raw text handed to normalizeStudentId
    norm1,      \* normalizeStudentId(raw)
    norm2,      \* normalizeStudentId(norm1)
    pcN,        \* "input" | "normalized" | "renormalized"
    \* ---- identity and session (App, lines 46-50)
    fbReady,    \* the identity provider has reported once
    fbUser,     \* the signed-in identity's uid, or NoUser
    session,    \* the session record, or NoSession
    userDocs,   \* the role store /users/{uid}: a document or NoDoc
    roleReads,  \* role-document reads in flight, each with the uid it was started for
    authEvents, \* number of identity notifications so far
    \* ---- student directory (document store and the AdminStudents page of
    \*      each admin client)
    students,   \* schools/{schoolId}/students: document key -> document
    adm,        \* per client: session role, inline message, createStudent and importCSV in flight
    dirOps,     \* number of createStudent / importCSV requests so far
    \* ---- pages and the scan-session token (App, lines 53-58)
    page,             \* "dashboard" | "scanner" | "student" | "admin_students"
    student,          \* the student shown, or NoStudent
    studentLoadError, \* "" or the load error shown
    scanSession,      \* scanSessionRef.current
    lookups,          \* student reads of openStudentById in flight
    lookupSeq,        \* number of student reads started so far
    signOutPending,   \* signOut() is awaiting firebaseSignOut
    \* ---- QRScanner
    scanner,    \* the mounted QRScanner instance, or NoScanner
    zombies,    \* unmounted instances whose decoder or timer can still call back
    \* ---- StudentPage and the notes of the students
    notesDb,     \* student ID -> the notes stored under it, oldest first
    studentPage, \* the note form: comment, message, saveNote's position
    ev          \* the last step taken: [op, ...]

normVars == <<raw, norm1, norm2, pcN>>
roleVars == <<fbReady, fbUser, session, userDocs, roleReads, authEvents>>

dirVars == <<students, adm, dirOps>>

navVars == <<page, student, studentLoadError, scanSession, lookups, lookupSeq,
             signOutPending>>
scanVars == <<scanner, zombies>>

noteVars == <<notesDb, studentPage>>

vars == <<normVars, roleVars, dirVars, navVars, scanVars, noteVars, ev>>

\* what a step of one part leaves alone (a step that changes what App
\* renders mounts or unmounts the scanner: see Render)
exceptNorm == <<roleVars, dirVars, navVars, scanVars, noteVars>>
exceptRole == <<normVars, dirVars, navVars, notesDb>>
exceptDir == <<normVars, roleVars, navVars, scanVars, noteVars>>
exceptApp == <<normVars, dirVars, noteVars>>
exceptNav == <<normVars, dirVars, notesDb>>
exceptNotes == <<normVars, roleVars, dirVars, navVars, scanVars>>

-----------------------------------------------------------------------------
(* Bounds *)

\* longest raw text handed to the normalizer
MaxLen == 4

\* identity notifications (sign-ins and sign-outs) in one run
MaxAuthEvents == 4

\* createStudent and importCSV requests in one run, over all clients
MaxDirOps == 3

\* navigations (advances of the scan-session token) in one run
MaxNav == 2

\* student reads started by openStudentById in one run
MaxLookups == 1

\* notes stored, over all students
MaxNotes == 2

-----------------------------------------------------------------------------
(* Characters and strings *)

\* the characters raw texts are drawn from: the letters the normalizer looks
\* at (S, s, -, digits, whitespace, "{", the letters of "http", ":" and "/")
Alphabet == {"S", "s", "-", "1", "2", " ", "{", "h", "t", "p", ":", "/"}

Texts(n) == UNION {[1..k -> Alphabet] : k \in 0..n}

\* /\s/ : whitespace, as String.prototype.trim and /\s+/ see it
IsSpace(c) == c \in {" ", "\t", "\n", "\r"}

\* /\d/ : an ASCII digit
IsDigit(c) == c \in {"0", "1", "2", "3", "4", "5", "6", "7", "8", "9"}

\* String.prototype.toUpperCase, one character
LowerLetters ==
    <<"a", "b", "c", "d", "e", "f", "g", "h", "i", "j", "k", "l", "m",
      "n", "o", "p", "q", "r", "s", "t", "u", "v", "w", "x", "y", "z">>
UpperLetters ==
    <<"A", "B", "C", "D", "E", "F", "G", "H", "I", "J", "K", "L", "M",
      "N", "O", "P", "Q", "R", "S", "T", "U", "V", "W", "X", "Y", "Z">>

UpperChar(c) ==
    IF \E i \in 1..26 : LowerLetters[i] = c
    THEN UpperLetters[CHOOSE i \in 1..26 : LowerLetters[i] = c]
    ELSE c

ToUpperCase(s) == [i \in 1..Len(s) |-> UpperChar(s[i])]

RECURSIVE TrimStart(_)
TrimStart(s) ==
    IF s # <<>> /\ IsSpace(Head(s)) THEN TrimStart(Tail(s)) ELSE s

RECURSIVE TrimEnd(_)
TrimEnd(s) ==
    IF s # <<>> /\ IsSpace(s[Len(s)]) THEN TrimEnd(SubSeq(s, 1, Len(s) - 1)) ELSE s

\* String.prototype.trim
Trim(s) == TrimEnd(TrimStart(s))

\* t.replace(/\s+/g, "")
StripSpaces(s) == SelectSeq(s, LAMBDA c : ~IsSpace(c))

StartsWith(s, p) == Len(s) >= Len(p) /\ SubSeq(s, 1, Len(p)) = p

Includes(s, p) ==
    \E i \in 1..(Len(s) - Len(p) + 1) : SubSeq(s, i, i + Len(p) - 1) = p

\* /^\d+$/
MatchDigits(s) == Len(s) >= 1 /\ \A i \in 1..Len(s) : IsDigit(s[i])

\* /^S-?\d+$/
MatchSDigits(s) ==
    /\ Len(s) >= 2
    /\ s[1] = "S"
    /\ \/ MatchDigits(Tail(s))
       \/ s[2] = "-" /\ MatchDigits(SubSeq(s, 3, Len(s)))

\* a mutant of MatchesId: the patterns lose their end anchor
MatchesIdUnanchored(s) ==
    \E n \in 1..Len(s) :
        MatchSDigits(SubSeq(s, 1, n)) \/ MatchDigits(SubSeq(s, 1, n))

\* s.match(/^S-?\d+$/) || s.match(/^\d+$/)
MatchesId(s) == MatchSDigits(s) \/ MatchDigits(s)

\* a mutant of ReplaceSPrefix: the prefix is added, the old one not removed
ReplaceSPrefixKeep(s) == <<"S", "-">> \o s

\* s.replace(/^S-?/, "S-")
ReplaceSPrefix(s) ==
    IF s # <<>> /\ s[1] = "S"
    THEN IF Len(s) >= 2 /\ s[2] = "-"
         THEN <<"S", "-">> \o SubSeq(s, 3, Len(s))
         ELSE <<"S", "-">> \o Tail(s)
    ELSE s

normalizeStudentId(r) ==
    LET t == Trim(r) IN
    IF t = <<>> THEN <<>>
    ELSE LET cleaned == StripSpaces(t) IN
         IF \/ StartsWith(cleaned, <<"{">>)
            \/ StartsWith(cleaned, <<"h", "t", "t", "p">>)
            \/ Includes(cleaned, <<":", "/", "/">>)
         THEN <<>>
         ELSE LET s == ToUpperCase(cleaned) IN
              IF ~MatchesId(s) THEN <<>>
              ELSE IF StartsWith(s, <<"S">>) THEN ReplaceSPrefix(s) ELSE s

\* the normalizer harness at rest
NormIdle ==
    /\ raw = <<>>
    /\ norm1 = <<>>
    /\ norm2 = <<>>
    /\ pcN = "input"

-----------------------------------------------------------------------------
(* Identity and session/role resolver (App, lines 83-145) *)

Uids == {"u1", "u2"}
NoUser == "none"

SCHOOL_ID == "demo-school"

Roles == {"admin", "teacher", "counselor", "parent", "unknown"}

NoSession == [uid |-> "none", role |-> "none", name |-> "none", schoolId |-> "none"]

\* a role document: absent, or present with a role field holding any value
\* ("" is the empty string, NoField a document without the field)
NoDoc == [exists |-> FALSE, role |-> "-"]
NoField == "undefined"
RoleFieldValues ==
    {"admin", "teacher", "counselor", "parent", "principal", "", NoField}
RoleDocs == {NoDoc} \cup {[exists |-> TRUE, role |-> v] : v \in RoleFieldValues}

\* a JavaScript value used as a condition
Falsy(v) == v \in {"", NoField}

\* ROLE_DEFAULT_NAMES[role] || "مستخدم"
DefaultName(role) ==
    CASE role = "admin"     -> "name-admin"
      [] role = "teacher"   -> "name-teacher"
      [] role = "counselor" -> "name-counselor"
      [] role = "parent"    -> "name-parent"
      [] OTHER              -> "name-user"

\* the session of lines 110-117 and 135-142
UnknownSession(u) ==
    [uid |-> u, role |-> "unknown", name |-> "name-user", schoolId |-> SCHOOL_ID]

\* the session of lines 121-132, from the document's data
DocSession(u, d) ==
    LET role == IF Falsy(d.role) THEN "unknown" ELSE d.role IN
    [uid |-> u, role |-> role, name |-> DefaultName(role), schoolId |-> SCHOOL_ID]

\* a mutant of RoleReadFailed: the rejection is not caught, no session is set
RoleReadFailedUncaught(u) == session

\* the catch block, lines 133-143
RoleReadFailed(u) == UnknownSession(u)

\* the try block after the read resolved, lines 105-132
RoleReadDone(u, d) == IF ~d.exists THEN UnknownSession(u) ELSE DocSession(u, d)

RoleIdle ==
    /\ fbReady = FALSE
    /\ fbUser = NoUser
    /\ session = NoSession
    /\ userDocs = [u \in Uids |-> NoDoc]
    /\ roleReads = {}
    /\ authEvents = 0


-----------------------------------------------------------------------------
(* CSV parsing (parseCSV, splitCSVLine, lines 1447-1484) *)

\* the positions 1..Len(s) of a text, in order
Positions(s) == [i \in 1..Len(s) |-> i]

\* text.replace(/\r\n/g, "\n").replace(/\r/g, "\n"): a carriage return
\* followed by a line feed is dropped, any other one becomes a line feed
NormalizeNewlines(s) ==
    LET keep == SelectSeq(Positions(s),
                          LAMBDA i : ~(s[i] = "\r" /\ i < Len(s) /\ s[i + 1] = "\n"))
    IN  [k \in 1..Len(keep) |-> IF s[keep[k]] = "\r" THEN "\n" ELSE s[keep[k]]]

\* s.split("\n"): the pieces between consecutive line feeds
SplitLines(s) ==
    LET nl == SelectSeq(Positions(s), LAMBDA i : s[i] = "\n") IN
    [k \in 1..(Len(nl) + 1) |->
        LET from == IF k = 1 THEN 1 ELSE nl[k - 1] + 1
            to   == IF k = Len(nl) + 1 THEN Len(s) ELSE nl[k] - 1
        IN  [j \in 1..(to - from + 1) |-> s[from + j - 1]]]

\* the non-empty lines of the text: .split("\n").filter(Boolean)
CsvLines(text) ==
    SelectSeq(SplitLines(NormalizeNewlines(text)), LAMBDA l : l # <<>>)

\* the loop of splitCSVLine from position i, with the field being read, the
\* quote state and the fields read so far
RECURSIVE SplitLoop(_, _, _, _, _)
SplitLoop(line, i, cur, inQuotes, out) ==
    IF i > Len(line) THEN Append(out, cur)
    ELSE LET ch == line[i] IN
         IF ch = "\"" /\ (i = 1 \/ line[i - 1] # "\\")
         THEN SplitLoop(line, i + 1, cur, ~inQuotes, out)
         ELSE IF ch = "," /\ ~inQuotes
              THEN SplitLoop(line, i + 1, <<>>, inQuotes, Append(out, cur))
              ELSE SplitLoop(line, i + 1, Append(cur, ch), inQuotes, out)

splitCSVLine(line) == SplitLoop(line, 1, <<>>, FALSE, <<>>)

\* the rows of the text: one object per data line, header name -> trimmed field
parseCSV(text) ==
    LET lines == CsvLines(text) IN
    IF lines = <<>> THEN <<>>
    ELSE LET hs      == splitCSVLine(lines[1])
             headers == [i \in 1..Len(hs) |-> Trim(hs[i])]
             Row(line) ==
                 LET cols == splitCSVLine(line) IN
                 [h \in {headers[i] : i \in 1..Len(headers)} |->
                     LET idx == CHOOSE i \in 1..Len(headers) :
                                   /\ headers[i] = h
                                   /\ \A j \in 1..Len(headers) : headers[j] = h => j <= i
                     IN  IF idx <= Len(cols) THEN Trim(cols[idx]) ELSE <<>>]
         IN  [k \in 1..(Len(lines) - 1) |-> Row(lines[k + 1])]

-----------------------------------------------------------------------------
(* Student directory: documents, form inputs, CSV files *)

Clients == {"c1", "c2"}

\* the column names importCSV reads
K_studentId == <<"s", "t", "u", "d", "e", "n", "t", "I", "d">>
K_StudentID == <<"S", "t", "u", "d", "e", "n", "t", "I", "D">>
K_id        == <<"i", "d">>
K_ID        == <<"I", "D">>
K_name      == <<"n", "a", "m", "e">>
K_Name      == <<"N", "a", "m", "e">>
K_grade     == <<"g", "r", "a", "d", "e">>
K_Grade     == <<"G", "r", "a", "d", "e">>
K_section   == <<"s", "e", "c", "t", "i", "o", "n">>
K_Section   == <<"S", "e", "c", "t", "i", "o", "n">>

\* the default grade and section of the form and of importCSV (one opaque
\* character each stands for the Arabic text)
DEFAULT_GRADE   == <<"grade-1-primary">>
DEFAULT_SECTION == <<"section-alif">>

\* importCSV writes at most this many rows: cleaned.slice(0, 200)
ImportCap == 200

\* r[k1] || r[k2] || ... || dflt : the first non-empty field
RECURSIVE FirstTruthy(_, _, _)
FirstTruthy(r, keys, dflt) ==
    IF keys = <<>> THEN dflt
    ELSE IF Head(keys) \in DOMAIN r /\ r[Head(keys)] # <<>>
         THEN r[Head(keys)]
         ELSE FirstTruthy(r, Tail(keys), dflt)

\* the .map(...) of lines 677-685
CleanRow(r) ==
    [studentId |-> normalizeStudentId(
                       FirstTruthy(r, <<K_studentId, K_StudentID, K_id, K_ID>>, <<>>)),
     name      |-> Trim(FirstTruthy(r, <<K_name, K_Name>>, <<>>)),
     grade     |-> Trim(FirstTruthy(r, <<K_grade, K_Grade>>, DEFAULT_GRADE)),
     section   |-> Trim(FirstTruthy(r, <<K_section, K_Section>>, DEFAULT_SECTION))]

\* rows.map(...).filter((x) => x.studentId && x.name)
CleanedRows(text) ==
    LET rows == parseCSV(text) IN
    SelectSeq([i \in 1..Len(rows) |-> CleanRow(rows[i])],
              LAMBDA x : x.studentId # <<>> /\ x.name # <<>>)

\* a mutant of BatchRows: every cleaned row is written
BatchRowsAll(cleaned) == cleaned

\* cleaned.slice(0, 200)
BatchRows(cleaned) ==
    SubSeq(cleaned, 1, IF Len(cleaned) < ImportCap THEN Len(cleaned) ELSE ImportCap)

\* the document written for a student (lines 597-609 and 699-712)
StudentDoc(sid, name, grade, section, role, who, via) ==
    [schoolId |-> SCHOOL_ID, studentId |-> sid, name |-> name,
     grade |-> grade, section |-> section,
     createdBy |-> [role |-> role, identifier |-> who, via |-> via]]

\* the student collection
NoStudents == [k \in {} |-> 0]
Exists(db, k) == k \in DOMAIN db
Put(db, k, d) == [x \in DOMAIN db \cup {k} |-> IF x = k THEN d ELSE db[x]]

\* batch.set(ref, {...}, {merge: false}) for every row in order, committed
\* as one write: of the rows set under one key the last one is stored
ApplyBatch(db, rows, role, who) ==
    LET ids     == {rows[i].studentId : i \in 1..Len(rows)}
        last(k) == LET at == {i \in 1..Len(rows) : rows[i].studentId = k}
                   IN  CHOOSE i \in at : \A j \in at : j <= i
    IN  [k \in DOMAIN db \cup ids |->
            IF k \in ids
            THEN LET s == rows[last(k)] IN
                 StudentDoc(s.studentId, s.name, s.grade, s.section, role, who, "csv")
            ELSE db[k]]

\* texts typed into the StudentID and name fields
FormIds == {<<"s", "1">>, <<" ", "1">>, <<"S">>}
FormNames == {<<" ">>, <<"A", " ">>}

\* concatenation of lines, each ended by a line feed
RECURSIVE JoinLines(_)
JoinLines(ls) ==
    IF ls = <<>> THEN <<>>
    ELSE IF Len(ls) = 1 THEN ls[1] \o <<"\n">>
    ELSE LET h == Len(ls) \div 2 IN
         JoinLines(SubSeq(ls, 1, h)) \o JoinLines(SubSeq(ls, h + 1, Len(ls)))

\* uploaded files: id,name / S1,B   and   name / A (no ID column)
CsvIdName == JoinLines(<<K_id \o <<",">> \o K_name, <<"S", "1", ",", "B">>>>)
CsvNameOnly == JoinLines(<<K_name, <<"A">>>>)
CsvFiles == {CsvIdName, CsvNameOnly}
NoFile == <<"no file">>

\* the decimal digits of a number, as text
RECURSIVE DigitsOfNat(_)
DigitsOfNat(n) ==
    LET d == <<"0", "1", "2", "3", "4", "5", "6", "7", "8", "9">>[(n % 10) + 1] IN
    IF n < 10 THEN <<d>> ELSE Append(DigitsOfNat(n \div 10), d)

\* a file of more rows than one import writes: studentId,name then the rows
\* S1,1  S2,  S3,3 ... (the second row has no name)
CsvManyRows ==
    JoinLines(<<K_studentId \o <<",">> \o K_name>> \o
              [i \in 1..(ImportCap + 2) |->
                  <<"S">> \o DigitsOfNat(i) \o <<",">> \o
                  (IF i = 2 THEN <<>> ELSE DigitsOfNat(i))])

\* a file whose rows lack an ID, a name, or both:
\*   id,name /  s2 ,C / http://x,D / S3,(blanks) / ,E / S-4,F / {,(nothing)
CsvMixedRows ==
    JoinLines(<<K_id \o <<",">> \o K_name,
                <<" ", "s", "2", " ", ",", "C">>,
                <<"h", "t", "t", "p", ":", "/", "/", "x", ",", "D">>,
                <<"S", "3", ",", " ", " ">>,
                <<",", "E">>,
                <<"S", "-", "4", ",", "F">>,
                <<"{", ",">>>>)

\* studentId,name,grade,section / 10025,Ahmed,Grade1,A
CsvVector ==
    JoinLines(<<K_studentId \o <<",">> \o K_name \o <<",">> \o K_grade \o <<",">> \o K_section,
                <<"1", "0", "0", "2", "5", ",", "A", "h", "m", "e", "d", ",",
                  "G", "r", "a", "d", "e", "1", ",", "A">>>>)

\* StudentID,Name,Grade,Section /  s7 , Bo ,G2, B   (fields with blanks around)
CsvSynonyms ==
    JoinLines(<<K_StudentID \o <<",">> \o K_Name \o <<",">> \o K_Grade \o <<",">> \o K_Section,
                <<" ", "s", "7", " ", ",", " ", "B", "o", " ", ",", "G", "2", ",",
                  " ", "B", " ">>>>)

\* ID,Name / S-8,Cy   (no grade and no section column)
CsvUpperId == JoinLines(<<K_ID \o <<",">> \o K_Name, <<"S", "-", "8", ",", "C", "y">>>>)

\* the files uploaded in the import runs
ImportFiles ==
    {CsvIdName, CsvNameOnly, CsvManyRows, CsvMixedRows, CsvVector, CsvSynonyms,
     CsvUpperId}

\* the cleaned rows of every file that is uploaded
CleanedOf == [f \in CsvFiles \cup ImportFiles |-> CleanedRows(f)]

ClientIdle(role) ==
    [role |-> role, msg |-> "",
     cpc |-> "idle", csid |-> <<>>, cname |-> <<>>, cexisted |-> FALSE,
     ipc |-> "idle", ibatch |-> <<>>]

\* the directory part at rest
DirIdle ==
    /\ students = NoStudents
    /\ adm = [c \in Clients |-> ClientIdle("admin")]
    /\ dirOps = 0

-----------------------------------------------------------------------------
(* Pages, the scan-session token and the QRScanner component *)

NoStudent == [none |-> TRUE]

NavIdle ==
    /\ page = "dashboard"
    /\ student = NoStudent
    /\ studentLoadError = ""
    /\ scanSession = 0
    /\ lookups = {}
    /\ lookupSeq = 0
    /\ signOutPending = FALSE

\* App renders a page only past its guards (lines 245-280)
PagesShown ==
    /\ fbReady
    /\ fbUser # NoUser
    /\ session # NoSession
    /\ session.role # "unknown"

\* App renders <QRScanner> (line 305)
ScannerShown == PagesShown /\ page = "scanner"

NoTimer == [set |-> FALSE]

\* a QRScanner instance.  sid: the sessionId prop its callbacks closed over;
\* start: the decodeFromConstraints promise ("none", "pending", "armed" once
\* the decoder runs and the promise is about to resolve); decoder: "off",
\* "armed", or "draining" after reset() while callbacks may still arrive;
\* handoffs, reads: the onScan calls and the student reads of the camera
\* session (a camera session ends at the next start and at stop/reset)
FreshScanner(tok) ==
    [sid |-> tok, status |-> "idle", error |-> "", didScan |-> FALSE,
     pending |-> NoTimer, start |-> "none", decoder |-> "off",
     handoffs |-> 0, reads |-> 0]

NoScanner ==
    [sid |-> -1, status |-> "unmounted", error |-> "", didScan |-> FALSE,
     pending |-> NoTimer, start |-> "none", decoder |-> "off",
     handoffs |-> 0, reads |-> 0]

ScanIdle ==
    /\ scanner = NoScanner
    /\ zombies = {}

\* the students that notes are kept for
NoteKeys == {<<"S", "-", "1">>, <<"S", "-", "2">>}

NoWrite == [none |-> TRUE]

\* the notes query of loadNotes: limit(30)
NotesLimit == 30

\* StudentPage on mount: an empty comment, no message, not saving, an empty
\* notes list, not loading; loads are the loadNotes calls whose getDocs has
\* not settled (the student ID each was called with, and its caller)
FreshStudentPage ==
    [comment |-> <<>>, msg |-> "", pc |-> "idle", w |-> NoWrite,
     notes |-> <<>>, loading |-> FALSE, loads |-> {}]

\* student?.studentId
HasStudentId(st) == st # NoStudent /\ st.studentId # <<>>

\* the dependency of the effect of lines 1130-1135
EffectKey(st) == IF HasStudentId(st) THEN st.studentId ELSE <<>>

\* App renders <StudentPage> (lines 316-325)
StudentPageShown == PagesShown /\ page = "student"

\* the effect of lines 1130-1135: the message and the list are cleared and,
\* when a student is shown, loadNotes is called up to its await
StudentEffect(sp, st) ==
    IF HasStudentId(st)
    THEN [sp EXCEPT !.msg = "", !.notes = <<>>, !.loading = TRUE,
                    !.loads = @ \cup {[sid |-> st.studentId, by |-> "effect"]}]
    ELSE [sp EXCEPT !.msg = "", !.notes = <<>>]

\* what getDocs of loadNotes returns: the newest notes first, at most
\* NotesLimit of them
LatestNotes(ns) ==
    [i \in 1..(IF Len(ns) < NotesLimit THEN Len(ns) ELSE NotesLimit) |->
        ns[Len(ns) + 1 - i]]

NotesIdle ==
    /\ notesDb = [k \in NoteKeys |-> <<>>]
    /\ studentPage = FreshStudentPage

\* clearPending
clearPending(sc) == [sc EXCEPT !.pending = NoTimer]

\* a mutant of stopScanner: the pending timer is left running
stopScannerKeepTimer(sc) ==
    [sc EXCEPT !.decoder = IF @ = "armed" THEN "draining" ELSE @]

\* stopScanner: clearPending, then readerRef.current.reset()
stopScanner(sc) ==
    [clearPending(sc) EXCEPT !.decoder = IF @ = "armed" THEN "draining" ELSE @]

\* an instance after its unmount (the cleanup of line 1025 has run:
\* stopScanner).  Its state setters no longer do anything; what is left of
\* it is the token it closed over and its hand-off timer.  It is kept while
\* it can still act: its latch is not set and its decoder can still call
\* back (reset() has not taken effect yet, or the camera it was starting
\* starts after all), or, once it has accepted a result, its timer is set.
Unmounted(sc) == [sid |-> sc.sid, pending |-> NoTimer]
CanCallBack(sc) == ~sc.didScan /\ (sc.decoder # "off" \/ sc.start # "none")

\* React mounts and unmounts <QRScanner> as what App renders changes: sc and
\* zs are the instance and the unmounted instances after the step's own effect.
\* <StudentPage> is mounted with fresh state, runs its effect on mount and
\* whenever the ID of the student it is given changes, and loses its state
\* when it is unmounted (what it had in flight then sets nothing any more).
Render(sc, zs) ==
    /\ IF ScannerShown /\ ~ScannerShown'
       THEN /\ scanner' = NoScanner
            /\ zombies' = zs \cup (IF CanCallBack(sc) THEN {Unmounted(sc)} ELSE {})
       ELSE IF ~ScannerShown /\ ScannerShown'
            THEN /\ scanner' = FreshScanner(scanSession')
                 /\ zombies' = zs
            ELSE /\ scanner' = sc
                 /\ zombies' = zs
    /\ studentPage' =
         IF ~StudentPageShown' THEN FreshStudentPage
         ELSE IF ~StudentPageShown THEN StudentEffect(FreshStudentPage, student')
         ELSE IF EffectKey(student') # EffectKey(student)
              THEN StudentEffect(studentPage, student')
         ELSE studentPage

-----------------------------------------------------------------------------
(* Identity notifications and the role effect *)

InitRole ==
    /\ fbReady = FALSE
    /\ fbUser = NoUser
    /\ session = NoSession
    /\ userDocs \in [Uids -> RoleDocs]
    /\ roleReads = {}
    /\ authEvents = 0
    /\ NormIdle
    /\ DirIdle
    /\ NavIdle
    /\ ScanIdle
    /\ NotesIdle
    /\ ev = [op |-> "init"]

\* onAuthStateChanged delivers an identity (first report with a restored
\* identity, or a sign-in from Login); the effect of lines 92-145 then starts
\* the read of /users/{uid}
AuthSignedIn(u) ==
    /\ authEvents < MaxAuthEvents
    /\ fbUser = NoUser
    /\ fbUser' = u
    /\ fbReady' = TRUE
    /\ authEvents' = authEvents + 1
    /\ roleReads' = roleReads \cup {[uid |-> u, n |-> authEvents + 1]}
    /\ ev' = [op |-> "signedIn", uid |-> u]
    /\ UNCHANGED <<session, userDocs, exceptRole>>
    /\ Render(scanner, zombies)

\* onAuthStateChanged delivers no identity (first report, or after a
\* sign-out); the effect clears the session (lines 96-99)
AuthSignedOut ==
    /\ authEvents < MaxAuthEvents
    /\ ~fbReady \/ fbUser # NoUser
    /\ fbUser' = NoUser
    /\ fbReady' = TRUE
    /\ authEvents' = authEvents + 1
    /\ session' = NoSession
    /\ ev' = [op |-> "signedOut"]
    /\ UNCHANGED <<userDocs, roleReads, exceptRole>>
    /\ Render(scanner, zombies)

\* await getDoc(roleRef) resolves with the stored document or its absence
RoleReadResolves(r) ==
    /\ r \in roleReads
    /\ roleReads' = roleReads \ {r}
    /\ session' = RoleReadDone(r.uid, userDocs[r.uid])
    /\ ev' = [op |-> "roleRead", uid |-> r.uid,
              outcome |-> IF userDocs[r.uid].exists THEN "found" ELSE "absent"]
    /\ UNCHANGED <<fbReady, fbUser, userDocs, authEvents, exceptRole>>
    /\ Render(scanner, zombies)

\* await getDoc(roleRef) rejects
RoleReadRejects(r) ==
    /\ r \in roleReads
    /\ roleReads' = roleReads \ {r}
    /\ session' = RoleReadFailed(r.uid)
    /\ ev' = [op |-> "roleRead", uid |-> r.uid, outcome |-> "failed"]
    /\ UNCHANGED <<fbReady, fbUser, userDocs, authEvents, exceptRole>>
    /\ Render(scanner, zombies)

RoleReadSettles == \E r \in roleReads : RoleReadResolves(r) \/ RoleReadRejects(r)

NextRole ==
    \/ \E u \in Uids : AuthSignedIn(u)
    \/ AuthSignedOut
    \/ \E r \in roleReads : RoleReadResolves(r)
    \/ \E r \in roleReads : RoleReadRejects(r)

\* a pending read of the role document settles: the database client resolves
\* or rejects every getDoc
SpecRole == InitRole /\ [][NextRole]_vars /\ WF_vars(RoleReadSettles)

-----------------------------------------------------------------------------
(* AdminStudents: createStudent (lines 577-621) and importCSV (665-729) *)

InitDir ==
    /\ students = NoStudents
    /\ \E r \in Roles \ {"unknown"} :
           adm = [c \in Clients |-> ClientIdle(IF c = "c1" THEN "admin" ELSE r)]
    /\ dirOps = 0
    /\ NormIdle
    /\ RoleIdle
    /\ NavIdle
    /\ ScanIdle
    /\ NotesIdle
    /\ ev = [op |-> "init"]

\* a mutant of IsAdmin: every role passes the check
IsAdminAlways(role) == TRUE

\* session.role !== "admin" (lines 580 and 669), negated
IsAdmin(role) == role = "admin"

\* a mutant of DocExists: the existence check always finds nothing
DocExistsNever(db, k) == FALSE

\* exists.exists() of line 592, on the snapshot the read returned
DocExists(db, k) == Exists(db, k)

\* createStudent up to its first await: the role check, the validation of
\* the ID and the name, then the existence read is started.  The button is
\* disabled while saving.
CreateStudent(c, id, nm) ==
    LET a   == adm[c]
        sid == normalizeStudentId(id)
    IN
    /\ dirOps < MaxDirOps
    /\ a.cpc = "idle"
    /\ dirOps' = dirOps + 1
    /\ adm' = [adm EXCEPT ![c] =
                 IF ~IsAdmin(a.role) THEN [a EXCEPT !.msg = "noPermission"]
                 ELSE IF sid = <<>> THEN [a EXCEPT !.msg = "badId"]
                 ELSE IF Trim(nm) = <<>> THEN [a EXCEPT !.msg = "nameRequired"]
                 ELSE [a EXCEPT !.msg = "", !.cpc = "checking", !.csid = sid,
                                !.cname = Trim(nm),
                                !.cexisted = Exists(students, sid)]]
    /\ ev' = [op |-> "createStudent", c |-> c,
              existed |-> sid # <<>> /\ Exists(students, sid)]
    /\ UNCHANGED <<students, exceptDir>>

\* await getDoc(ref) resolves: an existing document ends the run with the
\* warning; otherwise setDoc is issued
CreateCheckResolves(c) ==
    LET a == adm[c] IN
    /\ a.cpc = "checking"
    /\ adm' = [adm EXCEPT ![c] =
                 IF DocExists(students, a.csid)
                 THEN [a EXCEPT !.msg = "exists", !.cpc = "idle"]
                 ELSE [a EXCEPT !.cpc = "writing"]]
    /\ ev' = [op |-> "createChecked", c |-> c, existed |-> a.cexisted]
    /\ UNCHANGED <<students, dirOps, exceptDir>>

\* await getDoc(ref) rejects: the catch block reports the failure
CreateCheckRejects(c) ==
    LET a == adm[c] IN
    /\ a.cpc = "checking"
    /\ adm' = [adm EXCEPT ![c] = [a EXCEPT !.msg = "createFailed", !.cpc = "idle"]]
    /\ ev' = [op |-> "createCheckFailed", c |-> c, existed |-> a.cexisted]
    /\ UNCHANGED <<students, dirOps, exceptDir>>

\* await setDoc(ref, {...}) resolves: the document is written (replacing any
\* document under the key); the success message is set and loadLatest, called
\* next, clears the message and starts the listing read
CreateWriteResolves(c) ==
    LET a == adm[c] IN
    /\ a.cpc = "writing"
    /\ students' = Put(students, a.csid,
                       StudentDoc(a.csid, a.cname, DEFAULT_GRADE, DEFAULT_SECTION,
                                  a.role, c, NoField))
    /\ adm' = [adm EXCEPT ![c] = [a EXCEPT !.msg = "", !.cpc = "listing"]]
    /\ ev' = [op |-> "createWritten", c |-> c, existed |-> a.cexisted]
    /\ UNCHANGED <<dirOps, exceptDir>>

\* await setDoc(ref, {...}) rejects
CreateWriteRejects(c) ==
    LET a == adm[c] IN
    /\ a.cpc = "writing"
    /\ adm' = [adm EXCEPT ![c] = [a EXCEPT !.msg = "createFailed", !.cpc = "idle"]]
    /\ ev' = [op |-> "createWriteFailed", c |-> c, existed |-> a.cexisted]
    /\ UNCHANGED <<students, dirOps, exceptDir>>

\* the listing read of loadLatest settles (it catches its own failure), then
\* createStudent's finally ends the run
CreateListSettles(c, ok) ==
    LET a == adm[c] IN
    /\ a.cpc = "listing"
    /\ adm' = [adm EXCEPT ![c] =
                 [a EXCEPT !.msg = IF ok THEN a.msg ELSE "listFailed", !.cpc = "idle"]]
    /\ ev' = [op |-> "createListed", c |-> c]
    /\ UNCHANGED <<students, dirOps, exceptDir>>

\* importCSV with the text of the chosen file: the role check, parseCSV, the
\* cleaning and the cap; the batch is built and its commit started
ImportCSV(c, file) ==
    LET a       == adm[c]
        cleaned == CleanedOf[file]
    IN
    /\ dirOps < MaxDirOps
    /\ a.ipc = "idle"
    /\ dirOps' = dirOps + 1
    /\ adm' = [adm EXCEPT ![c] =
                 IF file = NoFile THEN [a EXCEPT !.msg = ""]
                 ELSE IF ~IsAdmin(a.role) THEN [a EXCEPT !.msg = "noPermission"]
                 ELSE IF Len(cleaned) = 0 THEN [a EXCEPT !.msg = "noValidRows"]
                 ELSE [a EXCEPT !.msg = "", !.ipc = "committing",
                                !.ibatch = BatchRows(cleaned)]]
    /\ ev' = [op |-> "importCSV", c |-> c, chosen |-> (file # NoFile), file |-> file]
    /\ UNCHANGED <<students, exceptDir>>

\* importCSV when await file.text() rejects: the catch block reports it
ImportReadRejects(c) ==
    LET a == adm[c] IN
    /\ dirOps < MaxDirOps
    /\ a.ipc = "idle"
    /\ IsAdmin(a.role)
    /\ dirOps' = dirOps + 1
    /\ adm' = [adm EXCEPT ![c] = [a EXCEPT !.msg = "importFailed"]]
    /\ ev' = [op |-> "importReadFailed", c |-> c]
    /\ UNCHANGED <<students, exceptDir>>

\* await batch.commit() resolves: every row of the batch is written at once;
\* the success message is set and loadLatest, called next, clears it
ImportCommitResolves(c) ==
    LET a == adm[c] IN
    /\ a.ipc = "committing"
    /\ students' = ApplyBatch(students, a.ibatch, a.role, c)
    /\ adm' = [adm EXCEPT ![c] = [a EXCEPT !.msg = "", !.ipc = "listing", !.ibatch = <<>>]]
    /\ ev' = [op |-> "importCommitted", c |-> c]
    /\ UNCHANGED <<dirOps, exceptDir>>

\* a mutant of FailedCommit: the first row of a failed batch is stored
FailedCommitPartial(db, rows, role, who) == ApplyBatch(db, SubSeq(rows, 1, 1), role, who)

\* the collection after a batch.commit() that rejected: a batch is applied
\* as a whole or not at all
FailedCommit(db, rows, role, who) == db

\* await batch.commit() rejects: nothing is written, the catch block reports
\* the failure
ImportCommitRejects(c) ==
    LET a == adm[c] IN
    /\ a.ipc = "committing"
    /\ students' = FailedCommit(students, a.ibatch, a.role, c)
    /\ adm' = [adm EXCEPT ![c] = [a EXCEPT !.msg = "importFailed", !.ipc = "idle", !.ibatch = <<>>]]
    /\ ev' = [op |-> "importCommitFailed", c |-> c]
    /\ UNCHANGED <<dirOps, exceptDir>>

\* the listing read after an import settles
ImportListSettles(c, ok) ==
    LET a == adm[c] IN
    /\ a.ipc = "listing"
    /\ adm' = [adm EXCEPT ![c] =
                 [a EXCEPT !.msg = IF ok THEN a.msg ELSE "listFailed", !.ipc = "idle"]]
    /\ ev' = [op |-> "importListed", c |-> c]
    /\ UNCHANGED <<students, dirOps, exceptDir>>

NextDir ==
    \E c \in Clients :
        \/ \E id \in FormIds, nm \in FormNames : CreateStudent(c, id, nm)
        \/ CreateCheckResolves(c)
        \/ CreateCheckRejects(c)
        \/ CreateWriteResolves(c)
        \/ CreateWriteRejects(c)
        \/ \E ok \in BOOLEAN : CreateListSettles(c, ok)
        \/ \E file \in CsvFiles \cup {NoFile} : ImportCSV(c, file)
        \/ ImportReadRejects(c)
        \/ ImportCommitResolves(c)
        \/ ImportCommitRejects(c)
        \/ \E ok \in BOOLEAN : ImportListSettles(c, ok)

SpecDir == InitDir /\ [][NextDir]_vars

-----------------------------------------------------------------------------
(* Imports of one admin client, over files of every shape *)

InitImport ==
    /\ students \in {NoStudents,
                      Put(NoStudents, <<"S", "-", "1">>,
                          StudentDoc(<<"S", "-", "1">>, <<"A">>, DEFAULT_GRADE,
                                     DEFAULT_SECTION, "admin", "c2", NoField))}
    /\ adm = [c \in Clients |-> ClientIdle("admin")]
    /\ dirOps = 0
    /\ NormIdle
    /\ RoleIdle
    /\ NavIdle
    /\ ScanIdle
    /\ NotesIdle
    /\ ev = [op |-> "init"]

NextImport ==
    \/ \E file \in ImportFiles \cup {NoFile} : ImportCSV("c1", file)
    \/ ImportReadRejects("c1")
    \/ ImportCommitResolves("c1")
    \/ ImportCommitRejects("c1")
    \/ \E ok \in BOOLEAN : ImportListSettles("c1", ok)

SpecImport == InitImport /\ [][NextImport]_vars

-----------------------------------------------------------------------------
(* App: navigation helpers (lines 171-204) and openStudentById (206-240) *)

QrExisting == <<"S", "-", "1">>
QrMissing == <<"s", "2">>
QrInvalid == <<"{">>

\* what a QR code decodes to
QrTexts == {QrExisting, QrMissing, QrInvalid}

\* the student collection while scanning
ScanStudents ==
    Put(NoStudents, <<"S", "-", "1">>,
        StudentDoc(<<"S", "-", "1">>, <<"A">>, DEFAULT_GRADE, DEFAULT_SECTION,
                   "admin", "u1", NoField))

\* goDashboard, goScanner, goAdminStudents and the finally block of signOut:
\* the token advances, the student and the error are cleared, the page is set
GoTo(p, sc) ==
    /\ scanSession' = scanSession + 1
    /\ student' = NoStudent
    /\ studentLoadError' = ""
    /\ page' = p
    /\ UNCHANGED <<lookups, lookupSeq, roleVars, exceptNav>>
    /\ Render(sc, zombies)

\* Dashboard: the sign-out button; signOut awaits firebaseSignOut
SignOutClick ==
    /\ PagesShown /\ page = "dashboard"
    /\ ~signOutPending
    /\ scanSession < MaxNav
    /\ signOutPending' = TRUE
    /\ ev' = [op |-> "signOutClick"]
    /\ UNCHANGED <<page, student, studentLoadError, scanSession, lookups, lookupSeq,
                   roleVars, scanVars, exceptApp>>

\* firebaseSignOut resolves or rejects: the finally block runs either way (the
\* identity listener clears the session on its own, see AuthSignedOut)
SignOutSettles ==
    /\ signOutPending
    /\ signOutPending' = FALSE
    /\ ev' = [op |-> "signOut"]
    /\ GoTo("dashboard", scanner)

\* StudentPage and AdminStudents: the button to the dashboard
GoDashboard ==
    /\ PagesShown /\ page \in {"student", "admin_students"}
    /\ scanSession < MaxNav
    /\ ev' = [op |-> "goDashboard"]
    /\ UNCHANGED signOutPending
    /\ GoTo("dashboard", scanner)

\* Dashboard (the admin's scan card), AdminStudents and StudentPage: the
\* button to the scanner
GoScanner ==
    /\ PagesShown
    /\ \/ page = "dashboard" /\ session.role = "admin"
       \/ page \in {"student", "admin_students"}
    /\ scanSession < MaxNav
    /\ ev' = [op |-> "goScanner"]
    /\ UNCHANGED signOutPending
    /\ GoTo("scanner", scanner)

\* Dashboard: the admin's student-management card
GoAdminStudents ==
    /\ PagesShown /\ page = "dashboard" /\ session.role = "admin"
    /\ scanSession < MaxNav
    /\ ev' = [op |-> "goAdminStudents"]
    /\ UNCHANGED signOutPending
    /\ GoTo("admin_students", scanner)

\* a mutant of TokenCurrent: the guard of line 207 lets every call through
TokenCurrentAlways(tok) == TRUE

\* currentScanSessionId === scanSessionRef.current (line 207)
TokenCurrent(tok) == tok = scanSession

\* openStudentById gets past its guards and starts the read of the student
ReadStarts(text, tok) == TokenCurrent(tok) /\ normalizeStudentId(text) # <<>>

\* openStudentById up to its await, called by the timer of a scanner instance;
\* sc and zs are the scanner instances after the timer callback's own effect
openStudentById(text, tok, sc, zs) ==
    LET sid == normalizeStudentId(text) IN
    /\ ReadStarts(text, tok) => lookupSeq < MaxLookups
    /\ ev' = [op |-> "openStudentById", text |-> text, valid |-> (sid # <<>>),
              tok |-> tok]
    /\ UNCHANGED <<scanSession, signOutPending, roleVars, exceptNav>>
    /\ IF ~TokenCurrent(tok)
       THEN UNCHANGED <<page, student, studentLoadError, lookups, lookupSeq>>
       ELSE IF sid = <<>>
       THEN /\ student' = NoStudent
            /\ studentLoadError' = "invalidQR"
            /\ page' = "student"
            /\ UNCHANGED <<lookups, lookupSeq>>
       ELSE /\ studentLoadError' = ""
            /\ lookupSeq' = lookupSeq + 1
            /\ lookups' = lookups \cup {[n |-> lookupSeq + 1, sid |-> sid, tok |-> tok]}
            /\ UNCHANGED <<page, student>>
    /\ Render(sc, zs)

\* await getDoc(studentDocRef(sid)) resolves: the student is shown, or the
\* not-found error
LookupResolves(l) ==
    /\ l \in lookups
    /\ lookups' = lookups \ {l}
    /\ IF Exists(students, l.sid)
       THEN /\ student' = students[l.sid]
            /\ UNCHANGED studentLoadError
       ELSE /\ student' = NoStudent
            /\ studentLoadError' = "notFound"
    /\ page' = "student"
    /\ ev' = [op |-> "lookupSettled", tok |-> l.tok,
              outcome |-> IF Exists(students, l.sid) THEN "found" ELSE "notFound"]
    /\ UNCHANGED <<scanSession, lookupSeq, signOutPending, roleVars, exceptNav>>
    /\ Render(scanner, zombies)

\* await getDoc(studentDocRef(sid)) rejects: the catch block
LookupRejects(l) ==
    /\ l \in lookups
    /\ lookups' = lookups \ {l}
    /\ student' = NoStudent
    /\ studentLoadError' = "loadFailed"
    /\ page' = "student"
    /\ ev' = [op |-> "lookupSettled", tok |-> l.tok, outcome |-> "failed"]
    /\ UNCHANGED <<scanSession, lookupSeq, signOutPending, roleVars, exceptNav>>
    /\ Render(scanner, zombies)

-----------------------------------------------------------------------------
(* QRScanner (lines 963-1090) *)

\* what decodeFromConstraints can reject with: the error's name, and whether
\* its message contains "denied"
CameraErrors ==
    {[name |-> "NotAllowedError", denied |-> FALSE],
     [name |-> "NotFoundError", denied |-> FALSE],
     [name |-> "NotReadableError", denied |-> FALSE],
     [name |-> "AbortError", denied |-> TRUE],
     [name |-> "OverconstrainedError", denied |-> FALSE]}

\* humanizeCameraError (lines 1403-1412)
humanizeCameraError(e) ==
    IF e.name = "NotAllowedError" \/ e.denied THEN "cameraDenied"
    ELSE IF e.name = "NotFoundError" THEN "cameraNotFound"
    ELSE IF e.name = "NotReadableError" THEN "cameraBusy"
    ELSE "cameraFailed"

\* the decode callback delivers no result (no code in the frame)
NoResult == <<"no result">>

\* a mutant of AlreadyScanned: the latch is never seen set
AlreadyScannedNever(sc) == FALSE

\* didScanRef.current, as the decode callback tests it (line 1002)
AlreadyScanned(sc) == sc.didScan

\* a mutant of AcceptScan: the timer is set but the scanner is not stopped
AcceptScanNoStop(sc, text) ==
    [sc EXCEPT !.didScan = TRUE,
               !.pending = [set |-> TRUE, text |-> text, sid |-> sc.sid, old |-> FALSE]]

\* the decode callback past its two guards (lines 1004-1013): the latch is
\* set, the scanner stopped, the hand-off timer set
AcceptScan(sc, text) ==
    [clearPending(stopScanner([sc EXCEPT !.didScan = TRUE]))
        EXCEPT !.pending = [set |-> TRUE, text |-> text, sid |-> sc.sid, old |-> FALSE]]

\* the camera button (enabled unless scanning or starting): startCameraAndScan
\* up to its await.  One decodeFromConstraints promise is followed per
\* instance: a start while an earlier one is unsettled is left out.
StartClick ==
    /\ ScannerShown
    /\ scanner.status \notin {"scanning", "starting"}
    /\ scanner.start = "none"
    /\ scanner' = [scanner EXCEPT !.error = "", !.status = "starting",
                                  !.didScan = FALSE, !.start = "pending",
                                  !.pending = IF @ = NoTimer THEN @
                                              ELSE [@ EXCEPT !.old = TRUE],
                                  !.handoffs = 0, !.reads = 0]
    /\ ev' = [op |-> "startClick"]
    /\ UNCHANGED <<zombies, navVars, roleVars, exceptApp>>

\* the camera stream is attached and the decode loop runs; callbacks may
\* arrive before the promise of decodeFromConstraints resolves
CameraArms ==
    /\ ScannerShown
    /\ scanner.start = "pending"
    /\ scanner' = [scanner EXCEPT !.start = "armed", !.decoder = "armed"]
    /\ ev' = [op |-> "cameraArms"]
    /\ UNCHANGED <<zombies, navVars, roleVars, exceptApp>>

\* await decodeFromConstraints resolves (line 1018)
StartResolves ==
    /\ ScannerShown
    /\ scanner.start = "armed"
    /\ scanner' = [scanner EXCEPT !.start = "none", !.status = "scanning"]
    /\ ev' = [op |-> "startResolves"]
    /\ UNCHANGED <<zombies, navVars, roleVars, exceptApp>>

\* await decodeFromConstraints rejects: the catch block (lines 1019-1022)
StartRejects(e) ==
    /\ ScannerShown
    /\ scanner.start = "pending"
    /\ scanner' = [scanner EXCEPT !.start = "none", !.status = "error",
                                  !.error = humanizeCameraError(e)]
    /\ ev' = [op |-> "startRejects"]
    /\ UNCHANGED <<zombies, navVars, roleVars, exceptApp>>

\* the decode callback of the mounted scanner (lines 1000-1014); after
\* reset() it can still arrive until the decoder has stopped
Decode(result) ==
    /\ ScannerShown
    /\ scanner.decoder \in {"armed", "draining"}
    /\ scanner' =
         IF result = NoResult \/ AlreadyScanned(scanner) THEN scanner
         ELSE [AcceptScan(scanner, result) EXCEPT !.status = "scanned"]
    /\ ev' = [op |-> "decode", result |-> (result # NoResult),
              accepted |-> (result # NoResult /\ ~scanner.didScan)]
    /\ UNCHANGED <<zombies, navVars, roleVars, exceptApp>>

\* the decoder has stopped after reset(): no more callbacks
DecoderQuiesces ==
    /\ ScannerShown
    /\ scanner.decoder = "draining"
    /\ scanner' = [scanner EXCEPT !.decoder = "off"]
    /\ ev' = [op |-> "decoderQuiesces"]
    /\ UNCHANGED <<zombies, navVars, roleVars, exceptApp>>

\* the hand-off timer of the mounted scanner fires (lines 1010-1013)
TimerFires ==
    /\ ScannerShown
    /\ scanner.pending # NoTimer
    /\ LET t    == scanner.pending
           sc   == [scanner EXCEPT
                      !.pending = NoTimer,
                      !.handoffs = IF t.old THEN @ ELSE @ + 1,
                      !.reads = IF ~t.old /\ ReadStarts(t.text, t.sid) THEN @ + 1 ELSE @]
       IN  openStudentById(t.text, t.sid, sc, zombies)

\* the stop/reset button (lines 1073-1078)
StopReset ==
    /\ ScannerShown
    /\ scanner' = [stopScanner(scanner) EXCEPT !.didScan = FALSE, !.status = "idle",
                                               !.error = "",
                                               !.handoffs = 0, !.reads = 0]
    /\ ev' = [op |-> "stopReset", cancelled |-> (scanner.pending # NoTimer)]
    /\ UNCHANGED <<zombies, navVars, roleVars, exceptApp>>

\* the back button (lines 1039-1042): stopScanner, then goDashboard
ScannerBack ==
    /\ ScannerShown
    /\ scanSession < MaxNav
    /\ ev' = [op |-> "scannerBack", cancelled |-> (scanner.pending # NoTimer)]
    /\ UNCHANGED signOutPending
    /\ GoTo("dashboard", stopScanner(scanner))

\* a decode callback of an unmounted instance delivers a result while its
\* latch is not set: the latch is set, the timer is set
ZombieDecode(z, text) ==
    /\ z \in zombies
    /\ z.pending = NoTimer
    /\ zombies' = (zombies \ {z}) \cup
                  {[z EXCEPT !.pending = [set |-> TRUE, text |-> text,
                                          sid |-> z.sid, old |-> TRUE]]}
    /\ ev' = [op |-> "zombieDecode"]
    /\ UNCHANGED <<scanner, navVars, roleVars, exceptApp>>

\* the decoder of an unmounted instance has stopped for good
ZombieQuiesces(z) ==
    /\ z \in zombies
    /\ z.pending = NoTimer
    /\ zombies' = zombies \ {z}
    /\ ev' = [op |-> "zombieQuiesces"]
    /\ UNCHANGED <<scanner, navVars, roleVars, exceptApp>>

\* the hand-off timer of an unmounted instance fires; its latch is set, so
\* nothing more comes from it
ZombieTimerFires(z) ==
    /\ z \in zombies
    /\ z.pending # NoTimer
    /\ openStudentById(z.pending.text, z.pending.sid, scanner, zombies \ {z})

-----------------------------------------------------------------------------
(* The scan pipeline: an admin is signed in and the directory holds S-1 *)

InitScan ==
    /\ fbReady = TRUE
    /\ fbUser = "u1"
    /\ userDocs = [u \in Uids |-> IF u = "u1" THEN [exists |-> TRUE, role |-> "admin"]
                                  ELSE NoDoc]
    /\ session = DocSession("u1", [exists |-> TRUE, role |-> "admin"])
    /\ roleReads = {}
    /\ authEvents = 1
    /\ students = ScanStudents
    /\ adm = [c \in Clients |-> ClientIdle("admin")]
    /\ dirOps = 0
    /\ NormIdle
    /\ NavIdle
    /\ ScanIdle
    /\ NotesIdle
    /\ ev = [op |-> "init"]

NextScan ==
    \/ SignOutClick
    \/ SignOutSettles
    \/ GoDashboard
    \/ GoScanner
    \/ GoAdminStudents
    \/ \E l \in lookups : LookupResolves(l)
    \/ \E l \in lookups : LookupRejects(l)
    \/ StartClick
    \/ CameraArms
    \/ StartResolves
    \/ \E e \in CameraErrors : StartRejects(e)
    \/ \E r \in QrTexts \cup {NoResult} : Decode(r)
    \/ DecoderQuiesces
    \/ TimerFires
    \/ StopReset
    \/ ScannerBack
    \/ \E z \in zombies, t \in QrTexts : ZombieDecode(z, t)
    \/ \E z \in zombies : ZombieQuiesces(z)
    \/ \E z \in zombies : ZombieTimerFires(z)

\* the identity stays signed in (a sign-out whose firebaseSignOut rejects
\* leaves it so); SpecRole has the identity notifications
SpecScan == InitScan /\ [][NextScan]_vars

-----------------------------------------------------------------------------
(* Scanning again while a read is in flight: the scanner has handed over the
   code of S-1 and the read of S-1 has not settled.  lookupSeq counts the
   reads started from here on; the read in flight has the number 0. *)

InitRescan ==
    /\ fbReady = TRUE
    /\ fbUser = "u1"
    /\ userDocs = [u \in Uids |-> IF u = "u1" THEN [exists |-> TRUE, role |-> "admin"]
                                  ELSE NoDoc]
    /\ session = DocSession("u1", [exists |-> TRUE, role |-> "admin"])
    /\ roleReads = {}
    /\ authEvents = 1
    /\ students = ScanStudents
    /\ adm = [c \in Clients |-> ClientIdle("admin")]
    /\ dirOps = 0
    /\ page = "scanner"
    /\ student = NoStudent
    /\ studentLoadError = ""
    /\ scanSession = 1
    /\ lookups = {[n |-> 0, sid |-> normalizeStudentId(QrExisting), tok |-> 1]}
    /\ lookupSeq = 0
    /\ signOutPending = FALSE
    /\ \E d \in {"draining", "off"} :
          scanner = [FreshScanner(1) EXCEPT !.status = "scanned", !.didScan = TRUE,
                                            !.decoder = d, !.handoffs = 1, !.reads = 1]
    /\ zombies = {}
    /\ NormIdle
    /\ NotesIdle
    /\ ev = [op |-> "init"]

NextRescan ==
    \/ StartClick
    \/ CameraArms
    \/ StartResolves
    \/ StopReset
    \/ \E r \in QrTexts \cup {NoResult} : Decode(r)
    \/ DecoderQuiesces
    \/ TimerFires
    \/ \E l \in lookups : LookupResolves(l)
    \/ \E l \in lookups : LookupRejects(l)

SpecRescan == InitRescan /\ [][NextRescan]_vars

-----------------------------------------------------------------------------
(* QR codes of stored students: an admin client adds and imports students
   while a signed-in device scans the codes made for them *)

\* a mutant of qrText: the code carries the student's name
qrTextName(s) == s.name

\* openQR: the QR content is the studentId only (line 625)
qrText(s) == s.studentId

\* the files the admin imports while codes are scanned
QrFiles == {CsvIdName, CsvVector, CsvSynonyms}

InitQr ==
    /\ fbReady = TRUE
    /\ fbUser = "u1"
    /\ userDocs = [u \in Uids |-> IF u = "u1" THEN [exists |-> TRUE, role |-> "admin"]
                                  ELSE NoDoc]
    /\ session = DocSession("u1", [exists |-> TRUE, role |-> "admin"])
    /\ roleReads = {}
    /\ authEvents = 1
    /\ DirIdle
    /\ page = "scanner"
    /\ student = NoStudent
    /\ studentLoadError = ""
    /\ scanSession = 1
    /\ lookups = {}
    /\ lookupSeq = 0
    /\ signOutPending = FALSE
    /\ scanner = [FreshScanner(1) EXCEPT !.status = "scanning", !.decoder = "armed"]
    /\ zombies = {}
    /\ NormIdle
    /\ NotesIdle
    /\ ev = [op |-> "init"]

NextQr ==
    \/ \E id \in FormIds, nm \in FormNames : CreateStudent("c1", id, nm)
    \/ CreateCheckResolves("c1")
    \/ CreateCheckRejects("c1")
    \/ CreateWriteResolves("c1")
    \/ CreateWriteRejects("c1")
    \/ \E ok \in BOOLEAN : CreateListSettles("c1", ok)
    \/ \E file \in QrFiles : ImportCSV("c1", file)
    \/ ImportReadRejects("c1")
    \/ ImportCommitResolves("c1")
    \/ ImportCommitRejects("c1")
    \/ \E ok \in BOOLEAN : ImportListSettles("c1", ok)
    \/ \E k \in DOMAIN students : Decode(qrText(students[k]))
    \/ TimerFires
    \/ \E l \in lookups : LookupResolves(l)
    \/ \E l \in lookups : LookupRejects(l)

SpecQr == InitQr /\ [][NextQr]_vars

-----------------------------------------------------------------------------
(* StudentPage: the note form and saveNote (lines 1136-1173, 1239-1325) *)

\* what is typed into the comment field
NoteComments == {<<>>, <<" ">>, <<" ", "o", "k">>}

\* the student collection while notes are taken
NoteStudents ==
    Put(ScanStudents, <<"S", "-", "2">>,
        StudentDoc(<<"S", "-", "2">>, <<"B">>, DEFAULT_GRADE, DEFAULT_SECTION,
                   "admin", "u1", "csv"))

\* the note addDoc stores (lines 1144-1158)
NoteDoc(w) ==
    [schoolId |-> SCHOOL_ID, studentId |-> w.sid, studentName |-> w.name,
     type |-> "positive", comment |-> w.comment,
     createdBy |-> [role |-> w.role, identifier |-> w.who]]

\* a mutant of canWriteNotes: every role gets the note form
canWriteNotesAny(role) == TRUE

\* canWriteNotes (lines 1170-1173)
canWriteNotes(role) == role \in {"teacher", "counselor", "admin"}

\* StudentPage renders the note form: a student is shown and the role may
\* write notes (lines 1201 and 1239)
NoteFormShown ==
    /\ PagesShown /\ page = "student"
    /\ student # NoStudent
    /\ canWriteNotes(session.role)

\* the notes stored, over all students
NotesStored == {<<k, i>> \in NoteKeys \X (1..(MaxNotes + 1)) : i <= Len(notesDb[k])}

InitNotes ==
    /\ fbReady = TRUE
    /\ fbUser = "u1"
    /\ \E r \in Roles \ {"unknown"} :
          /\ userDocs = [u \in Uids |-> IF u = "u1" THEN [exists |-> TRUE, role |-> r]
                                        ELSE NoDoc]
          /\ session = DocSession("u1", [exists |-> TRUE, role |-> r])
    /\ roleReads = {}
    /\ authEvents = 1
    /\ students = NoteStudents
    /\ adm = [c \in Clients |-> ClientIdle("admin")]
    /\ dirOps = 0
    /\ page = "student"
    /\ student \in {NoStudent} \cup {NoteStudents[k] : k \in DOMAIN NoteStudents}
    /\ studentLoadError = IF student = NoStudent THEN "notFound" ELSE ""
    /\ scanSession = 1
    /\ lookups = {}
    /\ lookupSeq = 1
    /\ signOutPending = FALSE
    /\ notesDb \in {[k \in NoteKeys |-> <<>>],
                     [k \in NoteKeys |->
                         IF k = <<"S", "-", "1">>
                         THEN <<NoteDoc([sid |-> k, name |-> <<"A">>, comment |-> <<"x">>,
                                         role |-> "teacher", who |-> "u2"])>>
                         ELSE <<>>]}
    /\ studentPage = [FreshStudentPage EXCEPT
                        !.notes = IF HasStudentId(student)
                                  THEN LatestNotes(notesDb[student.studentId])
                                  ELSE <<>>]
    /\ NormIdle
    /\ ScanIdle
    /\ ev = [op |-> "init"]

\* the comment field changes
TypeComment(t) ==
    /\ NoteFormShown
    /\ studentPage.comment # t
    /\ studentPage' = [studentPage EXCEPT !.comment = t]
    /\ ev' = [op |-> "typeComment"]
    /\ UNCHANGED <<notesDb, exceptNotes>>

\* the save button (rendered with the form, disabled while saving): saveNote
\* up to await addDoc
SaveNote ==
    /\ NoteFormShown
    /\ studentPage.pc = "idle"
    /\ Cardinality(NotesStored) < MaxNotes
    /\ studentPage' =
         IF ~HasStudentId(student) THEN [studentPage EXCEPT !.msg = "noStudent"]
         ELSE IF Trim(studentPage.comment) = <<>>
              THEN [studentPage EXCEPT !.msg = "commentRequired"]
         ELSE [studentPage EXCEPT
                 !.msg = "", !.pc = "saving",
                 !.w = [sid |-> student.studentId, name |-> student.name,
                        comment |-> Trim(studentPage.comment),
                        role |-> session.role, who |-> session.uid]]
    /\ ev' = [op |-> "saveNote"]
    /\ UNCHANGED <<notesDb, exceptNotes>>

\* await addDoc resolves: a new note is stored under the student; the
\* comment is cleared, the message set, and loadNotes started
NoteWriteResolves ==
    /\ studentPage.pc = "saving"
    /\ notesDb' = [notesDb EXCEPT ![studentPage.w.sid] = Append(@, NoteDoc(studentPage.w))]
    /\ studentPage' = [studentPage EXCEPT
                          !.comment = <<>>, !.msg = "saved",
                          !.pc = "listing", !.w = NoWrite, !.loading = TRUE,
                          !.loads = @ \cup {[sid |-> studentPage.w.sid, by |-> "save"]}]
    /\ ev' = [op |-> "noteWritten", sid |-> studentPage.w.sid]
    /\ UNCHANGED exceptNotes

\* await addDoc rejects: the catch block, then finally
NoteWriteRejects ==
    /\ studentPage.pc = "saving"
    /\ studentPage' = [studentPage EXCEPT !.msg = "saveFailed", !.pc = "idle",
                                          !.w = NoWrite]
    /\ ev' = [op |-> "noteWriteFailed"]
    /\ UNCHANGED <<notesDb, exceptNotes>>

\* getDocs of a loadNotes call settles: the list is replaced when it resolves
\* and kept when it rejects (the catch block logs), and loadingNotes is
\* cleared; the call made by saveNote is followed by saveNote's finally
NoteListSettles(ld, ok) ==
    /\ ld \in studentPage.loads
    /\ studentPage' = [studentPage EXCEPT
                          !.loads = @ \ {ld},
                          !.notes = IF ok THEN LatestNotes(notesDb[ld.sid]) ELSE @,
                          !.loading = FALSE,
                          !.pc = IF ld.by = "save" THEN "idle" ELSE @]
    /\ ev' = [op |-> "noteListed", sid |-> ld.sid, ok |-> ok]
    /\ UNCHANGED <<notesDb, exceptNotes>>

NextNotes ==
    \/ \E t \in NoteComments : TypeComment(t)
    \/ SaveNote
    \/ NoteWriteResolves
    \/ NoteWriteRejects
    \/ \E ld \in studentPage.loads, ok \in BOOLEAN : NoteListSettles(ld, ok)

SpecNotes == InitNotes /\ [][NextNotes]_vars

-----------------------------------------------------------------------------
(* The notes list while the student shown changes: the student page shows a
   stored student, and the read of a second scan under the same token has
   not settled (see SpecRescan for how two reads come to be in flight) *)

InitNoteList ==
    /\ fbReady = TRUE
    /\ fbUser = "u1"
    /\ userDocs = [u \in Uids |-> IF u = "u1" THEN [exists |-> TRUE, role |-> "teacher"]
                                  ELSE NoDoc]
    /\ session = DocSession("u1", [exists |-> TRUE, role |-> "teacher"])
    /\ roleReads = {}
    /\ authEvents = 1
    /\ students = NoteStudents
    /\ adm = [c \in Clients |-> ClientIdle("admin")]
    /\ dirOps = 0
    /\ page = "student"
    /\ student \in {NoteStudents[k] : k \in DOMAIN NoteStudents}
    /\ studentLoadError = ""
    /\ scanSession = 1
    /\ \E k \in NoteKeys \cup {<<"S", "-", "3">>} :
          lookups = {[n |-> 1, sid |-> k, tok |-> 1]}
    /\ lookupSeq = 1
    /\ signOutPending = FALSE
    /\ notesDb = [k \in NoteKeys |->
                    IF k = <<"S", "-", "1">>
                    THEN <<NoteDoc([sid |-> k, name |-> <<"A">>, comment |-> <<"x">>,
                                    role |-> "teacher", who |-> "u2"])>>
                    ELSE <<>>]
    /\ studentPage \in {StudentEffect(FreshStudentPage, student),
                         [FreshStudentPage EXCEPT
                             !.notes = LatestNotes(notesDb[student.studentId])]}
    /\ NormIdle
    /\ ScanIdle
    /\ ev = [op |-> "init"]

NextNoteList ==
    \/ \E l \in lookups : LookupResolves(l)
    \/ \E l \in lookups : LookupRejects(l)
    \/ \E t \in NoteComments : TypeComment(t)
    \/ SaveNote
    \/ NoteWriteResolves
    \/ NoteWriteRejects
    \/ \E ld \in studentPage.loads, ok \in BOOLEAN : NoteListSettles(ld, ok)

SpecNoteList == InitNoteList /\ [][NextNoteList]_vars

-----------------------------------------------------------------------------
(* Normalizer harness *)

InitNorm ==
    /\ raw \in Texts(MaxLen)
    /\ norm1 = <<>>
    /\ norm2 = <<>>
    /\ pcN = "input"
    /\ RoleIdle
    /\ DirIdle
    /\ NavIdle
    /\ ScanIdle
    /\ NotesIdle
    /\ ev = [op |-> "init"]

\* the text is normalized where it enters (createStudent, importCSV,
\* openStudentById)
Normalize ==
    /\ pcN = "input"
    /\ norm1' = normalizeStudentId(raw)
    /\ pcN' = "normalized"
    /\ ev' = [op |-> "normalize"]
    /\ UNCHANGED <<raw, norm2, exceptNorm>>

\* a normalized ID is the document key and the QR payload; a scan of that
\* payload is normalized again by openStudentById
NormalizeAgain ==
    /\ pcN = "normalized"
    /\ norm2' = normalizeStudentId(norm1)
    /\ pcN' = "renormalized"
    /\ ev' = [op |-> "normalizeAgain"]
    /\ UNCHANGED <<raw, norm1, exceptNorm>>

NextNorm == Normalize \/ NormalizeAgain

SpecNorm == InitNorm /\ [][NextNorm]_vars

-----------------------------------------------------------------------------
(* Claims about normalizeStudentId *)

\* the trimmed, whitespace-stripped, uppercased form of a text
UpperForm(r) == ToUpperCase(StripSpaces(Trim(r)))

\* the digits of a text, in order
DigitsOf(r) == SelectSeq(r, IsDigit)

\* C1 (as claimed): every raw text whose trimmed, whitespace-stripped,
\* uppercased form matches ^S-?\d+$ or ^\d+$ normalizes to "S-" followed by
\* exactly its digits.  The code returns a digits-only text unchanged.
C1_CanonicalForm ==
    (pcN # "input" /\ (MatchSDigits(UpperForm(raw)) \/ MatchDigits(UpperForm(raw))))
        => norm1 = <<"S", "-">> \o DigitsOf(raw)

\* C2: normalizeStudentId returns the empty string for every text that is
\* empty, that after trimming and stripping whitespace begins with "{" or
\* "http" or contains "://", or whose uppercased form matches neither pattern.
C2_RejectsToEmpty ==
    LET c == StripSpaces(Trim(raw)) IN
    (/\ pcN # "input"
     /\ \/ raw = <<>>
        \/ StartsWith(c, <<"{">>)
        \/ StartsWith(c, <<"h", "t", "t", "p">>)
        \/ Includes(c, <<":", "/", "/">>)
        \/ ~(MatchSDigits(UpperForm(raw)) \/ MatchDigits(UpperForm(raw))))
        => norm1 = <<>>

\* C2 witness: a rejected text that holds an identifier followed by more
\* text has been normalized
C2_Witness ==
    /\ pcN # "input"
    /\ raw = <<"S", "1", ":", "/">>
    /\ norm1 = <<>>

\* C3: normalizeStudentId is idempotent on every text it accepts.
C3_Idempotent ==
    (pcN = "renormalized" /\ norm1 # <<>>) => norm2 = norm1

\* C3 witness: an accepted text that normalization changed has been
\* normalized twice
C3_Witness ==
    /\ pcN = "renormalized"
    /\ norm1 # <<>>
    /\ norm1 # raw

-----------------------------------------------------------------------------
(* Claims about the session/role resolver *)

\* C9: when the role document of the signed-in identity is absent, or its
\* read fails, or it has no role field, the resolver sets a session with role
\* "unknown", the identity's uid and the fixed school id; and a signed-in
\* identity is never left without a session forever.
C9_RoleDegradation ==
    /\ [](( /\ ev.op = "roleRead"
            /\ \/ ev.outcome \in {"absent", "failed"}
               \/ userDocs[ev.uid].role = NoField )
          => ( /\ session.uid = ev.uid
               /\ session.role = "unknown"
               /\ session.schoolId = SCHOOL_ID ))
    /\ [](fbUser # NoUser => <>(session # NoSession \/ fbUser = NoUser))

\* C9 witness: a read of a role document failed and the session is the
\* degraded one
C9_Witness ==
    /\ ev.op = "roleRead"
    /\ ev.outcome = "failed"
    /\ userDocs[ev.uid].exists
    /\ userDocs[ev.uid].role = "admin"
    /\ fbUser = ev.uid
    /\ session = UnknownSession(fbUser)

\* C10 (as claimed): whenever a session exists its role is one of admin,
\* teacher, counselor, parent, unknown, whatever the role document holds.
\* The code copies any non-empty role value of the document into the session.
C10_RoleInSet == session # NoSession => session.role \in Roles

-----------------------------------------------------------------------------
(* Claims about the student directory *)

\* the steps of a createStudent run
CreateOps ==
    {"createStudent", "createChecked", "createCheckFailed",
     "createWritten", "createWriteFailed"}

\* a createStudent run of an admin, for an ID that had a stored record when
\* the run began, has just ended
CreateForExistingEnded ==
    /\ ev.op \in CreateOps
    /\ ev.existed
    /\ adm[ev.c].role = "admin"
    /\ adm[ev.c].cpc = "idle"

\* C7 (as claimed): when createStudent is run by an admin with an ID whose
\* normalized form already has a stored record, no write is issued and the
\* conflict message is reported.  The name is validated before the existence
\* check and the read may fail: those runs end with another message.
C7_ConflictReported ==
    /\ \A c \in Clients : adm[c].cexisted => adm[c].cpc \notin {"writing", "listing"}
    /\ CreateForExistingEnded => adm[ev.c].msg = "exists"

\* C7 (amended): such a run issues no write and leaves the stored records
\* unmodified; it reports the conflict message when the name is non-empty
\* and the existence read resolves, the name-required message when the
\* trimmed name is empty, and the failure message when the read rejects.
C7_NoWriteOnExisting ==
    /\ [](\A c \in Clients : adm[c].cexisted => adm[c].cpc \notin {"writing", "listing"})
    /\ [](CreateForExistingEnded =>
            /\ ev.op \in {"createStudent", "createChecked", "createCheckFailed"}
            /\ adm[ev.c].msg =
                 CASE ev.op = "createStudent"     -> "nameRequired"
                   [] ev.op = "createChecked"     -> "exists"
                   [] ev.op = "createCheckFailed" -> "createFailed")
    /\ [][(ev'.op \in CreateOps /\ ev'.existed) => students' = students]_vars

\* C7 witness: the existence check of a run for a stored ID has resolved, the
\* conflict is reported and the record is the one stored before
C7_Witness ==
    /\ ev.op = "createChecked"
    /\ ev.existed
    /\ adm[ev.c].msg = "exists"
    /\ adm[ev.c].cname = <<"A">>
    /\ Exists(students, adm[ev.c].csid)
    /\ students[adm[ev.c].csid].name = <<"B">>

\* C8 (as claimed): a stored student record is never updated or deleted:
\* every step leaves name, grade, section and createdBy of every stored
\* record as they are.  importCSV writes its rows unconditionally.
C8_RecordsNeverChange ==
    [][\A k \in DOMAIN students :
          /\ k \in DOMAIN students'
          /\ students'[k].name = students[k].name
          /\ students'[k].grade = students[k].grade
          /\ students'[k].section = students[k].section
          /\ students'[k].createdBy = students[k].createdBy]_vars

-----------------------------------------------------------------------------
(* Claims about the scan pipeline *)

\* hand-offs of the current camera session that are still to come: its timer
PendingHandoffs ==
    IF scanner.pending # NoTimer /\ ~scanner.pending.old THEN 1 ELSE 0

\* C4: within one camera session (one start, no stop/reset or restart in
\* between), however many decode callbacks arrive, at most one result is
\* handed to onScan and at most one student read is started; once the latch
\* is set, exactly one hand-off is made or pending, and every later callback
\* is ignored
C4_OneHandoffPerSession ==
    scanner # NoScanner =>
        /\ scanner.handoffs + PendingHandoffs <= 1
        /\ scanner.didScan => scanner.handoffs + PendingHandoffs = 1
        /\ scanner.reads <= scanner.handoffs

\* a second result arrives after the hand-off was made and is ignored, the
\* one student read being in flight
C4_Witness ==
    /\ ev.op = "decode" /\ ev.result /\ ~ev.accepted
    /\ scanner.status = "scanned"
    /\ scanner.handoffs = 1 /\ scanner.reads = 1
    /\ Cardinality(lookups) = 1

\* C5: a scan handed to openStudentById under a token that is no longer the
\* current scan-session token is discarded at entry: no read is started, and
\* the page, the student and the error stay as they were
C5_StaleScanDiscarded ==
    [][(ev'.op = "openStudentById" /\ ev'.tok # scanSession)
          => UNCHANGED <<page, student, studentLoadError, lookups, lookupSeq>>]_vars

\* a scan with a well-formed ID has just been handed over under a stale token
C5_Witness ==
    /\ ev.op = "openStudentById" /\ ev.valid
    /\ ev.tok # scanSession
    /\ lookups = {}

\* C6: when the read of a student settles after the scan-session token has
\* advanced (a navigation or a sign-out since the scan), its result is
\* discarded: the page, the student and the error stay as they were
C6_StaleResultDiscarded ==
    [][(ev'.op = "lookupSettled" /\ ev'.tok # scanSession)
          => UNCHANGED <<page, student, studentLoadError>>]_vars

-----------------------------------------------------------------------------
(* Claims about the session lifecycle *)

\* C11: a session exists only for a signed-in identity: once the identity
\* provider has reported no identity, the session is absent and stays absent
\* until an identity is reported again, also when a role read started before
\* the sign-out settles afterwards
C11_NoSessionWhenSignedOut ==
    (fbReady /\ fbUser = NoUser) => session = NoSession

-----------------------------------------------------------------------------
(* Claims about the student directory, continued *)

\* C12: student writes require the admin role.  While the session role of a
\* client is not admin it has no student read or write in flight, and no
\* stored record was created under a role other than admin; a createStudent,
\* and an importCSV of a chosen file, under such a session change nothing but
\* the message, which becomes the insufficient-permission message
C12_AdminOnlyWrites ==
    /\ [](\A c \in Clients :
            adm[c].role # "admin" =>
                adm[c].cpc = "idle" /\ adm[c].ipc = "idle" /\ adm[c].ibatch = <<>>)
    /\ [](\A k \in DOMAIN students : students[k].createdBy.role = "admin")
    /\ [][(/\ ev'.op \in {"createStudent", "importCSV"}
           /\ adm[ev'.c].role # "admin"
           /\ ev'.op = "importCSV" => ev'.chosen)
              => /\ students' = students
                 /\ adm' = [adm EXCEPT ![ev'.c].msg = "noPermission"]]_vars

\* a teacher, counselor or parent session has just been refused
\* while the directory holds records
C12_Witness ==
    /\ ev.op \in {"createStudent", "importCSV"}
    /\ adm[ev.c].role # "admin"
    /\ adm[ev.c].msg = "noPermission"
    /\ students # NoStudents

\* the names of the rows of each uploaded file that have both an acceptable
\* ID and a non-empty name, in file order
SurvivingNames(f) ==
    CASE f = CsvIdName    -> << <<"B">> >>
      [] f = CsvNameOnly  -> << >>
      [] f = CsvManyRows  -> [k \in 1..(ImportCap + 1) |->
                                 DigitsOfNat(IF k = 1 THEN 1 ELSE k + 1)]
      [] f = CsvMixedRows -> << <<"C">>, <<"F">> >>
      [] f = CsvVector    -> << <<"A", "h", "m", "e", "d">> >>
      [] f = CsvSynonyms  -> << <<"B", "o">> >>
      [] f = CsvUpperId   -> << <<"C", "y">> >>

\* the IDs of the rows of a batch
BatchIds(rows) == {rows[i].studentId : i \in 1..Len(rows)}

\* C13: importCSV selects exactly the rows that have both a valid normalized
\* ID and a non-empty trimmed name, in file order, and at most the first 200
\* of them; a file with no such row starts no write and gives the inline
\* message; the commit stores the selected rows and nothing else
C13_ImportFilterAndCap ==
    /\ []((ev.op = "importCSV" /\ ev.chosen) =>
            LET a   == adm[ev.c]
                exp == SurvivingNames(ev.file)
                n   == IF Len(exp) < ImportCap THEN Len(exp) ELSE ImportCap
            IN  /\ Len(a.ibatch) = n
                /\ \A i \in 1..n : /\ a.ibatch[i].name = exp[i]
                                    /\ a.ibatch[i].studentId # <<>>
                /\ IF n = 0 THEN a.ipc = "idle" /\ a.msg = "noValidRows"
                            ELSE a.ipc = "committing")
    /\ [][ev'.op = "importCSV" => students' = students]_vars
    /\ [][ev'.op = "importCommitted" =>
             LET rows == adm[ev'.c].ibatch IN
             /\ DOMAIN students' = DOMAIN students \cup BatchIds(rows)
             /\ \A k \in DOMAIN students \ BatchIds(rows) : students'[k] = students[k]
             /\ \A i \in 1..Len(rows) :
                    students'[rows[i].studentId].name = rows[i].name]_vars

\* a file of 201 surviving rows has been imported: the first 200 are stored,
\* the last one is not, nor is the row without a name
C13_Witness ==
    /\ ev.op = "importCommitted"
    /\ <<"S", "-", "2", "0", "1">> \in DOMAIN students
    /\ <<"S", "-", "2", "0", "2">> \notin DOMAIN students
    /\ <<"S", "-", "2">> \notin DOMAIN students
    /\ Cardinality(DOMAIN students) = ImportCap

\* a record of an import: "S-" and the digits of the ID, and the fields
ImportedRow(digits, name, grade, section) ==
    [studentId |-> <<"S", "-">> \o digits, name |-> name,
     grade |-> grade, section |-> section]

\* the records the rows of the small files stand for
ExpectedRows(f) ==
    CASE f = CsvVector    -> <<ImportedRow(<<"1", "0", "0", "2", "5">>,
                                           <<"A", "h", "m", "e", "d">>,
                                           <<"G", "r", "a", "d", "e", "1">>, <<"A">>)>>
      [] f = CsvSynonyms  -> <<ImportedRow(<<"7">>, <<"B", "o">>, <<"G", "2">>, <<"B">>)>>
      [] f = CsvUpperId   -> <<ImportedRow(<<"8">>, <<"C", "y">>,
                                           DEFAULT_GRADE, DEFAULT_SECTION)>>
      [] f = CsvIdName    -> <<ImportedRow(<<"1">>, <<"B">>,
                                           DEFAULT_GRADE, DEFAULT_SECTION)>>
      [] f = CsvMixedRows -> <<ImportedRow(<<"2">>, <<"C">>,
                                           DEFAULT_GRADE, DEFAULT_SECTION),
                               ImportedRow(<<"4">>, <<"F">>,
                                           DEFAULT_GRADE, DEFAULT_SECTION)>>
      [] f = CsvNameOnly  -> << >>

\* the files ExpectedRows is stated for
MappedFiles ==
    {CsvVector, CsvSynonyms, CsvUpperId, CsvIdName, CsvMixedRows, CsvNameOnly}

\* C14: for CSV text under the header studentId,name,grade,section or its
\* synonyms, every data row with an acceptable ID and a non-empty name gives
\* exactly one record: studentId "S-" plus the row's digits, and the trimmed
\* name, grade and section (defaults when the column is absent); the row
\* 10025,Ahmed,Grade1,A gives S-10025, Ahmed, Grade1, A
C14_CsvRowMapping ==
    (ev.op = "importCSV" /\ ev.chosen /\ ev.file \in MappedFiles)
        => adm[ev.c].ibatch = ExpectedRows(ev.file)

\* C15: an import is one atomic batch.  When the commit succeeds every row
\* of the batch is stored, tagged createdBy.via = "csv"; when it fails no
\* record is stored or changed and the failure message is reported; between
\* the upload and the end of its commit the import writes nothing else
C15_ImportAtomic ==
    /\ [][ev'.op = "importCommitted" =>
             LET rows == adm[ev'.c].ibatch IN
             \A i \in 1..Len(rows) :
                 /\ rows[i].studentId \in DOMAIN students'
                 /\ students'[rows[i].studentId].createdBy.via = "csv"
                 /\ (\A j \in (i + 1)..Len(rows) : rows[j].studentId # rows[i].studentId)
                        => /\ students'[rows[i].studentId].name = rows[i].name
                           /\ students'[rows[i].studentId].grade = rows[i].grade
                           /\ students'[rows[i].studentId].section = rows[i].section]_vars
    /\ [][ev'.op = "importCommitFailed" =>
             /\ students' = students
             /\ adm'[ev'.c].msg = "importFailed"]_vars
    /\ [][ev'.op \in {"importCSV", "importReadFailed", "importListed"} =>
             students' = students]_vars

\* the commit of a batch of more than one row has failed on an empty
\* directory: nothing is stored and the failure message is shown
C15_Witness ==
    /\ ev.op = "importCommitFailed"
    /\ adm[ev.c].msg = "importFailed"
    /\ students = NoStudents

\* C16: a note write is in flight only for a teacher, counselor or admin
\* session, a resolved student and a non-empty trimmed comment; every change
\* of the stored notes is one note appended under the displayed student's ID,
\* with that comment and role, and leaves every existing note as it was.
C16_WriteInFlightAllowed ==
    studentPage.pc = "saving" =>
        /\ session.role \in {"teacher", "counselor", "admin"}
        /\ HasStudentId(student)
        /\ studentPage.w.sid = student.studentId
        /\ studentPage.w.comment # <<>>
        /\ studentPage.w.comment = Trim(studentPage.w.comment)

C16_OneAppend ==
    notesDb' # notesDb =>
        /\ studentPage.pc = "saving"
        /\ \E k \in NoteKeys :
              /\ k = student.studentId
              /\ Len(notesDb'[k]) = Len(notesDb[k]) + 1
              /\ SubSeq(notesDb'[k], 1, Len(notesDb[k])) = notesDb[k]
              /\ notesDb'[k][Len(notesDb'[k])].studentId = k
              /\ notesDb'[k][Len(notesDb'[k])].comment = studentPage.w.comment
              /\ notesDb'[k][Len(notesDb'[k])].createdBy.role = session.role
              /\ \A j \in NoteKeys \ {k} : notesDb'[j] = notesDb[j]

C16_NoteAppend == []C16_WriteInFlightAllowed /\ [][C16_OneAppend]_vars

\* a note was appended behind an existing one
C16_Witness ==
    /\ ev.op = "noteWritten"
    /\ Len(notesDb[<<"S", "-", "1">>]) = 2
    /\ notesDb[<<"S", "-", "1">>][1].comment = <<"x">>
    /\ notesDb[<<"S", "-", "1">>][2].comment = <<"o", "k">>

\* C17: the QR made for a stored student carries that record's studentId,
\* which normalizeStudentId maps to the key the record is stored under; a
\* scan of the code starts the read of exactly that document, and a read
\* that returns opens that student: neither "invalid QR" nor "not found".
C17_QrAddressesKey ==
    \A k \in DOMAIN students :
        /\ qrText(students[k]) = students[k].studentId
        /\ normalizeStudentId(qrText(students[k])) = k

C17_ScanOpensStudent ==
    /\ ev'.op = "openStudentById" =>
          /\ ev'.valid
          /\ \E k \in DOMAIN students :
                /\ ev'.text = qrText(students[k])
                /\ lookups' = lookups \cup {[n |-> lookupSeq + 1, sid |-> k,
                                              tok |-> scanSession]}
    /\ (ev'.op = "lookupSettled" /\ ev'.outcome # "failed") =>
          /\ ev'.outcome = "found"
          /\ student' \in {students[k] : k \in DOMAIN students}
          /\ \E l \in lookups \ lookups' : student' = students[l.sid]
          /\ studentLoadError' = ""

C17_QrRoundTrip ==
    /\ []C17_QrAddressesKey
    /\ [](studentLoadError \notin {"invalidQR", "notFound"})
    /\ [][C17_ScanOpensStudent]_vars

\* the code of a student whose ID is digits only was scanned and opened it
\* while a student added with the form is stored too
C17_Witness ==
    /\ ev.op = "lookupSettled" /\ ev.outcome = "found"
    /\ student # NoStudent
    /\ student.studentId = <<"1", "0", "0", "2", "5">>
    /\ \E k \in DOMAIN students : students[k].createdBy.via = NoField

\* C18 (as claimed): when two admin clients run createStudent for the same
\* normalized ID, a write of createStudent never lands on a record that
\* another createStudent run has stored: the record of the first writer
\* stays as it is, and the run that lost ends with the conflict message.
C18_FirstWriterKept ==
    [][(/\ ev'.op = "createWritten"
        /\ Exists(students, adm[ev'.c].csid)
        /\ students[adm[ev'.c].csid].createdBy.via = NoField)
       => /\ students' = students
          /\ adm'[ev'.c].msg = "exists"]_vars

\* C19 (as claimed): the status of a mounted scanner changes only along
\* idle -> starting (a start request), starting -> scanning (the camera start
\* completes), starting -> error (the start fails), scanning -> scanned (the
\* first decode) and to idle by stop/reset; a start request from error or
\* scanned is taken as a new start.
C19_StatusTransitions ==
    [][(/\ scanner.status # "unmounted"
        /\ scanner'.status # "unmounted"
        /\ scanner'.sid = scanner.sid
        /\ scanner'.status # scanner.status)
       => \/ ev'.op = "startClick" /\ scanner'.status = "starting"
          \/ ev'.op = "stopReset" /\ scanner'.status = "idle"
          \/ <<scanner.status, scanner'.status>> \in
                {<<"starting", "scanning">>, <<"starting", "error">>,
                 <<"scanning", "scanned">>}]_vars

\* C20: an accepted decode stops the decoder and sets the settle timer in
\* the decode callback itself, which does not call onScan; onScan is called
\* only by an expiring timer, once per timer, with the text that was decoded
\* and the session token the instance was rendered with.
C20_TimerOfLatchedScan ==
    (scanner.pending # NoTimer /\ ~scanner.pending.old) =>
        /\ scanner.didScan
        /\ scanner.pending.sid = scanner.sid
        /\ scanner.handoffs = 0

C20_DecodeStep ==
    ev'.op = "decode" =>
        /\ UNCHANGED navVars
        /\ scanner'.handoffs = scanner.handoffs
        /\ ev'.accepted =>
              /\ scanner'.decoder \in {"draining", "off"}
              /\ scanner'.pending # NoTimer
              /\ scanner'.pending.text \in QrTexts
              /\ scanner'.pending.sid = scanner.sid
              /\ ~scanner'.pending.old

C20_OnScanStep ==
    ev'.op = "openStudentById" =>
        \/ /\ scanner.pending # NoTimer
           /\ ev'.text = scanner.pending.text
           /\ ev'.tok = scanner.sid
           /\ scanner'.pending = NoTimer
           /\ (~scanner.pending.old /\ scanner'.sid = scanner.sid) =>
                 scanner'.handoffs = 1
        \/ \E z \in zombies \ zombies' :
              /\ z.pending # NoTimer
              /\ ev'.text = z.pending.text
              /\ ev'.tok = z.sid
              /\ scanner' = scanner

C20_HandoffOrdering ==
    []C20_TimerOfLatchedScan /\ [][C20_DecodeStep /\ C20_OnScanStep]_vars

\* the timer of the first accepted decode has expired and handed the text
\* over with the instance's token; the decoder had been stopped
C20_Witness ==
    /\ ev.op = "openStudentById"
    /\ ev.text = QrExisting
    /\ ev.tok = scanner.sid
    /\ scanner.handoffs = 1
    /\ scanner.didScan
    /\ scanner.status = "scanned"
    /\ scanner.decoder \in {"draining", "off"}
    /\ scanner.pending = NoTimer

\* C21: stop/reset leaves the scanner idle with the latch cleared and no
\* timer set, and starts nothing; leaving the scanner page unmounts the
\* instance with its timer cancelled; onScan is called only by a timer that
\* is set, so a decode accepted before the stop or the unmount is not handed
\* over afterwards; and a result that arrives while the latch is clear is
\* accepted again.
C21_StopCancelsHandoff ==
    [][/\ ev'.op = "stopReset" =>
             /\ scanner'.status = "idle"
             /\ ~scanner'.didScan
             /\ scanner'.pending = NoTimer
             /\ UNCHANGED <<navVars, zombies>>
       /\ (ScannerShown /\ ~ScannerShown') =>
             /\ scanner' = NoScanner
             /\ \A z \in zombies' \ zombies : z.pending = NoTimer
       /\ ev'.op = "openStudentById" =>
             \/ scanner.pending # NoTimer /\ scanner'.pending = NoTimer
             \/ \E z \in zombies \ zombies' : z.pending # NoTimer
       /\ (ev'.op = "decode" /\ ev'.result /\ ~scanner.didScan) =>
             /\ scanner'.didScan
             /\ scanner'.pending # NoTimer /\ ~scanner'.pending.old]_vars

\* a stop/reset has cancelled the timer of an accepted decode: nothing was
\* handed over
C21_Witness ==
    /\ ev.op = "stopReset" /\ ev.cancelled
    /\ scanner.status = "idle"
    /\ scanner.pending = NoTimer
    /\ lookupSeq = 0
    /\ student = NoStudent /\ page = "scanner"

\* C22 (as claimed): a failed camera start sets the status error with a
\* non-empty reason and starts no lookup, and a mounted scanner whose status
\* is error keeps it until the user asks for a start or presses stop/reset.
C22_ErrorUntilUserActs ==
    [][/\ ev'.op = "startRejects" =>
             /\ scanner'.status = "error"
             /\ scanner'.error # ""
             /\ UNCHANGED navVars
       /\ (scanner.status = "error" /\ scanner'.status \notin {"error", "unmounted"}) =>
             ev'.op \in {"startClick", "stopReset"}]_vars

\* C23 (as claimed): the scan-session token never decreases, and every step
\* that takes the page away from the scanner advances it, the step of
\* openStudentById that opens the student page included.
C23_TokenAdvancesOnLeave ==
    [][/\ scanSession' >= scanSession
       /\ (page = "scanner" /\ page' # "scanner") => scanSession' > scanSession]_vars

\* C24 (as claimed): whenever an identity is signed in and a session exists,
\* the session is the one the role read of that identity gives: its uid is
\* the identity's and its role is the role resolved for it.  The role effect
\* never cancels a read it has started.
C24_SessionMatchesIdentity ==
    (fbUser # NoUser /\ session # NoSession) =>
        /\ session.uid = fbUser
        /\ session \in {RoleReadDone(fbUser, userDocs[fbUser]), RoleReadFailed(fbUser)}

\* C25 (as claimed): on the student page either a student is shown and the
\* load error is empty, or no student is shown and the load error is set.
C25_StudentXorError ==
    page = "student" =>
        \/ student # NoStudent /\ studentLoadError = ""
        \/ student = NoStudent /\ studentLoadError # ""

\* C26 (as claimed): of the reads started under one session token the one
\* started last decides what the student page shows: a read that settles
\* after a read started later has settled changes neither the student nor
\* the error.
C26_LastScanWins ==
    [][\A l \in lookups \ lookups' :
          (/\ ev'.op = "lookupSettled"
           /\ l.tok = scanSession
           /\ l.n < lookupSeq
           /\ \A m \in lookups : m.n < lookupSeq)
          => UNCHANGED <<student, studentLoadError>>]_vars

\* C27 (as claimed): on the student page, while a student is shown and
\* loadingNotes is off, every note of the list has the ID of the student
\* shown.
C27_NotesOfShownStudent ==
    (StudentPageShown /\ HasStudentId(student) /\ ~studentPage.loading) =>
        \A i \in 1..Len(studentPage.notes) :
            studentPage.notes[i].studentId = student.studentId

\* C28 (as claimed): a camera start cancels the settle timer that an
\* earlier camera session left pending: after a start request no timer of
\* an earlier session is set, and the mounted scanner never hands over a
\* decode of an earlier camera session.
C28_RestartCancelsTimer ==
    /\ [](scanner.pending # NoTimer => ~scanner.pending.old)
    /\ [][ev'.op = "startClick" => scanner'.pending = NoTimer]_vars
    /\ [][(ev'.op = "openStudentById" /\ scanner.pending # NoTimer
             /\ scanner'.pending = NoTimer)
           => ~scanner.pending.old]_vars

=============================================================================
